---- MODULE Spec2Model ----
(***************************************************************************)
(* Model of compare.py: the variable normalizer (normalize_variables), the *)
(* structural comparator (compare_asts_with_similarity) and the driver     *)
(* (main) that parses two formulas, normalizes and compares them.          *)
(*                                                                         *)
(* Expression trees are the objects returned by the parser.  Every node,   *)
(* leaf or not, carries `func` (its class / operator tag) and `args` (its  *)
(* ordered children, the empty tuple for a leaf): the code reads           *)
(* expr.args on leaves at compare.py:29, :78 and :88.  A rebuilt node      *)
(* expr.func applied to the children is the node with that tag and exactly *)
(* those children; automatic evaluation by the expression library is       *)
(* outside the model.                                                      *)
(***************************************************************************)
EXTENDS Integers, Sequences, FiniteSets, TLC

\* ------------------------------------------------------------------ bounds

\* Largest number of nodes of a tree given to the normalizer.
MaxNodes == 4
\* Largest number of nodes of a tree given to the comparator.
MaxCompareNodes == 3
\* Largest number of nodes of a formula typed into main.
MaxInputNodes == 2
\* Largest number of children of an operator node.
MaxArity == 3

Names == {"a", "x_1", "x_2"}
Numbers == {2, 3}
OperatorTags == {"Add", "Mul"}

\* -------------------------------------------------------------- data model

\* A variable leaf: is_Symbol, no children.
Symbol(n) == [func |-> "Symbol", name |-> n, value |-> 0, args |-> <<>>]

\* A number leaf: not a symbol, no children.
Number(v) == [func |-> "Integer", name |-> "", value |-> v, args |-> <<>>]

\* An operator or function node with its ordered children.
Operator(f, children) == [func |-> f, name |-> "", value |-> 0, args |-> children]

\* expr.is_Symbol
is_Symbol(expr) == expr.func = "Symbol"

Leaves == {Symbol(n) : n \in Names} \cup {Number(v) : v \in Numbers}

CompareLeaves == {Symbol("x_1"), Symbol("x_2")} \cup {Number(v) : v \in Numbers}

RECURSIVE TreesOfSize(_, _), Forests(_, _, _)
\* The trees with exactly n nodes and leaves among `leaves`.
TreesOfSize(leaves, n) ==
    IF n = 1 THEN leaves
    ELSE {Operator(f, children) :
            f \in OperatorTags,
            children \in UNION {Forests(leaves, k, n - 1) : k \in 1..MaxArity}}

\* The sequences of k such trees with n nodes in all.
Forests(leaves, k, n) ==
    IF k = 0 THEN (IF n = 0 THEN {<<>>} ELSE {})
    ELSE UNION {{<<t>> \o rest : t \in TreesOfSize(leaves, m),
                                 rest \in Forests(leaves, k - 1, n - m)} :
                  m \in 1..n}

Trees == UNION {TreesOfSize(Leaves, n) : n \in 1..MaxNodes}

CompareTrees == UNION {TreesOfSize(CompareLeaves, n) : n \in 1..MaxCompareNodes}

InputTrees == UNION {TreesOfSize(Leaves, n) : n \in 1..MaxInputNodes}

\* Arguments of a call made before the one under study.
EarlierTrees ==
    {Symbol("x_2"),
     Operator("Mul", <<Number(2), Symbol("a")>>),
     Operator("Add", <<Symbol("x_2"), Symbol("a")>>)}

\* No value yet (Python's None, or a local that was never assigned).
None == [func |-> "None"]

\* --------------------------------------------------------------- normalizer

\* symbols(f"x_{next_variable_index}"): the name of placeholder number k.
Placeholder(k) == "x_" \o ToString(k)

\* A counter that is never advanced.
NextIndexStuck(k) == k

\* next_variable_index += 1
NextIndex(k) == k + 1

\* A symbol whose name already is a placeholder name is left alone.
NeedsMappingUnlessCanonical(expr) == is_Symbol(expr) /\ expr.name # Placeholder(1)

\* if expr.is_Symbol: the leaves that go through the mapping.
NeedsMapping(expr) == is_Symbol(expr)

RECURSIVE Reverse(_)
Reverse(s) == IF s = <<>> THEN <<>> ELSE Reverse(Tail(s)) \o <<Head(s)>>

\* The node rebuilt with its children in reverse order.
RebuildReversed(expr, children) == [expr EXCEPT !.args = Reverse(children)]

\* expr.func applied to the new children: a new node, same tag, the given children in order.
Rebuild(expr, children) == [expr EXCEPT !.args = children]

\* mapping = {} and next_variable_index = 1: the locals of one call.
FreshLocals == [mapping |-> <<>>, next_variable_index |-> 1]

RECURSIVE replace_variable(_, _), replace_arguments(_, _)
\* One call of the nested function on expr with the enclosing call's locals
\* `loc`; gives the returned node and the locals afterwards.
replace_variable(expr, loc) ==
    IF NeedsMapping(expr) THEN
        LET after ==
              IF expr.name \notin DOMAIN loc.mapping
              THEN [mapping |-> loc.mapping @@
                                  (expr.name :> Placeholder(loc.next_variable_index)),
                    next_variable_index |-> NextIndex(loc.next_variable_index)]
              ELSE loc
        IN [expr |-> Symbol(after.mapping[expr.name]), loc |-> after]
    ELSE IF expr.args # <<>> THEN
        LET done == replace_arguments(expr.args, loc)
        IN [expr |-> Rebuild(expr, done.exprs), loc |-> done.loc]
    ELSE [expr |-> expr, loc |-> loc]

\* [replace_variable(arg) for arg in expr.args]: left to right, each child
\* seeing the locals left by the one before it.
replace_arguments(children, loc) ==
    IF children = <<>> THEN [exprs |-> <<>>, loc |-> loc]
    ELSE LET first == replace_variable(Head(children), loc)
             rest == replace_arguments(Tail(children), first.loc)
         IN [exprs |-> <<first.expr>> \o rest.exprs, loc |-> rest.loc]

\* normalize_variables(ast): (normalized_ast, mapping), and the final counter.
normalize_variables(tree) ==
    LET r == replace_variable(tree, FreshLocals)
    IN [normalized_ast |-> r.expr,
        mapping |-> r.loc.mapping,
        next_variable_index |-> r.loc.next_variable_index]

\* --------------------------------------------------------------- comparator

\* A score (matches, total).  matches is kept in halves, so that the code's
\* 0 is 0, its 0.5 is 1 and its 1 is 2; total is a whole number of nodes.
Score(halves, total) == [matches |-> halves, total |-> total]

\* Equality that is recognised on leaves only.
EqualOnLeavesOnly(a1, a2) == a1 = a2 /\ a1.args = <<>>

\* ast1 == ast2: structural equality of the two subtrees.
EqualNodes(a1, a2) == a1 = a2

\* hasattr(ast, 'args'): true of every node of a tree, leaves included (a
\* leaf's args is the empty tuple), false of an object that is no node.
HasArgs(ast) == "args" \in DOMAIN ast

\* type(ast): the class of the object, which is also what ast.func gives.
TypeOf(ast) == ast.func

\* The test of line 46: one of the two objects has no attribute args.
WithoutArgs(a1, a2) == ~HasArgs(a1) \/ ~HasArgs(a2)

\* Line 47: nothing for objects of different types, one half otherwise.
LeafScore(a1, a2) ==
    IF TypeOf(a1) # TypeOf(a2) THEN Score(0, 1) ELSE Score(1, 1)

\* A tag match that is counted twice.
FuncMatchesDouble(a1, a2) == IF a1.func = a2.func THEN 4 ELSE 0

\* Lines 50-53: matches after the test ast1.func == ast2.func, in halves.
FuncMatches(a1, a2) == IF a1.func = a2.func THEN 2 ELSE 0

\* The length at which zip stops.
Min(m, n) == IF m <= n THEN m ELSE n

\* Every child of ast1 is paired, with nothing when ast2 has no child there.
ChildPairsByFirst(a1, a2) ==
    [i \in 1..Len(a1.args) |->
        <<a1.args[i], IF i <= Len(a2.args) THEN a2.args[i] ELSE None>>]

\* zip(ast1.args, ast2.args): the pairs at the same position, up to the
\* length of the shorter sequence.
ChildPairs(a1, a2) ==
    [i \in 1..Min(Len(a1.args), Len(a2.args)) |-> <<a1.args[i], a2.args[i]>>]

\* The node itself is left out of the total.
NodeScoreChildrenOnly(tag_matches, children) ==
    Score(tag_matches + children.matches, children.total)

\* Lines 51 and 64-66: total starts at 1 for the node itself, then the
\* children's matches and totals are added.
NodeScore(tag_matches, children) ==
    Score(tag_matches + children.matches, 1 + children.total)

RECURSIVE compare_asts_with_similarity(_, _), compare_children(_)
compare_asts_with_similarity(a1, a2) ==
    IF EqualNodes(a1, a2) THEN Score(2, 1)
    ELSE IF WithoutArgs(a1, a2) THEN LeafScore(a1, a2)
    ELSE NodeScore(FuncMatches(a1, a2), compare_children(ChildPairs(a1, a2)))

\* The loop of lines 56-61: child_matches and child_total over the pairs.
compare_children(pairs) ==
    IF Len(pairs) = 0 THEN Score(0, 0)
    ELSE LET first == compare_asts_with_similarity(pairs[1][1], pairs[1][2])
             rest == compare_children(Tail(pairs))
         IN Score(first.matches + rest.matches, first.total + rest.total)

\* (matches / total) * 100 if total > 0 else 0, kept as the exact fraction
\* num / den (matches is in halves, hence the 2 in the denominator).
similarity_percentage(score) ==
    IF score.total > 0
    THEN [num |-> score.matches * 100, den |-> 2 * score.total]
    ELSE [num |-> 0, den |-> 1]

\* ------------------------------------------------------- external services

\* What the user can type: text that the LaTeX parser turns into a tree, or
\* text it rejects with some cause.
ParseCauses == {"missing brace", "unexpected token"}

Formulas == [wellformed : {TRUE}, denotes : InputTrees, cause : {""}]
              \cup [wellformed : {FALSE}, denotes : {None}, cause : ParseCauses]

\* parse_latex(latex): the tree, or an exception carrying the cause.
parse_latex(latex) ==
    IF latex.wellformed
    THEN [raised |-> FALSE, value |-> latex.denotes]
    ELSE [raised |-> TRUE, exc |-> [type |-> "LaTeXParsingError", text |-> latex.cause]]

\* The wrapper raises an error that does not carry the cause.
parse_formula_without_cause(latex) ==
    LET r == parse_latex(latex)
    IN IF r.raised
       THEN [raised |-> TRUE,
             exc |-> [type |-> "ValueError", text |-> "LaTeX parse error", cause |-> ""]]
       ELSE r

\* parse_formula(latex): any exception of the parser is raised again as one
\* ValueError whose message embeds the original exception.
parse_formula(latex) ==
    LET r == parse_latex(latex)
    IN IF r.raised
       THEN [raised |-> TRUE,
             exc |-> [type |-> "ValueError", text |-> "LaTeX parse error",
                      cause |-> r.exc.text]]
       ELSE r

\* The exception an external call (simplify, render) may raise.
ExternalError(what) == [type |-> "Exception", text |-> what, cause |-> ""]

\* ------------------------------------------------------------------- state

VARIABLES
    pc,                  \* position of the run
    latex1, latex2,      \* main: the two texts read from the user
    ast1, ast2,          \* main: the parsed trees; comparator run: its arguments
    simplified1, simplified2,
    normalized1, mapping1, normalized2, mapping2,
    are_equal,
    matches, total,      \* the comparator's result (matches in halves)
    exception,           \* main: the exception caught at line 142
    output,              \* main: what was printed from line 99 on
    ast,                 \* normalizer run: the argument of the latest call
    normalized_ast, mapping, next_variable_index,  \* ... and what it left
    prev_ast, prev_normalized_ast                  \* ... and the call before it

vars == <<pc, latex1, latex2, ast1, ast2, simplified1, simplified2,
          normalized1, mapping1, normalized2, mapping2, are_equal, matches, total,
          exception, output, ast, normalized_ast, mapping, next_variable_index,
          prev_ast, prev_normalized_ast>>

mainVars == <<latex1, latex2, simplified1, simplified2, normalized1, mapping1,
              normalized2, mapping2, are_equal, exception, output>>

compareVars == <<ast1, ast2, matches, total>>

normalizeVars == <<ast, normalized_ast, mapping, next_variable_index,
                   prev_ast, prev_normalized_ast>>

\* Nothing assigned yet.
MainUnset ==
    /\ simplified1 = None /\ simplified2 = None
    /\ normalized1 = None /\ mapping1 = None
    /\ normalized2 = None /\ mapping2 = None
    /\ are_equal = FALSE
    /\ exception = None
    /\ output = <<>>

NormalizeUnset ==
    /\ ast = None /\ normalized_ast = None /\ mapping = None
    /\ next_variable_index = 0
    /\ prev_ast = None /\ prev_normalized_ast = None

\* ------------------------------------------------- runs of the normalizer

\* The permutations of the symbol names: the consistent injective renamings.
Renamings == {r \in [Names -> Names] : \A m, n \in Names : r[m] = r[n] => m = n}

RECURSIVE Rename(_, _)
\* The tree with every symbol named n renamed to r[n].
Rename(expr, r) ==
    IF is_Symbol(expr) THEN Symbol(r[expr.name])
    ELSE [expr EXCEPT !.args = [i \in 1..Len(expr.args) |-> Rename(expr.args[i], r)]]

InitNormalize ==
    /\ pc = "idle"
    /\ latex1 = None /\ latex2 = None /\ ast1 = None /\ ast2 = None
    /\ matches = 0 /\ total = 0
    /\ MainUnset
    /\ NormalizeUnset

\* One call normalize_variables(tree): the previous call's argument and
\* result are remembered, the call's own locals start afresh.
Call(tree) ==
    LET r == normalize_variables(tree)
    IN /\ prev_ast' = ast
       /\ prev_normalized_ast' = normalized_ast
       /\ ast' = tree
       /\ normalized_ast' = r.normalized_ast
       /\ mapping' = r.mapping
       /\ next_variable_index' = r.next_variable_index
       /\ UNCHANGED <<mainVars, ast1, ast2, matches, total>>

\* Some earlier, unrelated call.
NormalizeEarlier ==
    /\ pc = "idle"
    /\ \E tree \in EarlierTrees : Call(tree)
    /\ pc' = "earlier"

\* A call on an arbitrary tree.
NormalizeTree ==
    /\ pc \in {"idle", "earlier"}
    /\ \E tree \in Trees : Call(tree)
    /\ pc' = "called"

\* A call on the latest argument with its symbols renamed.
NormalizeRenamed ==
    /\ pc = "called"
    /\ \E r \in Renamings : Call(Rename(ast, r))
    /\ pc' = "renamed"

\* A call on the latest result.
NormalizeAgain ==
    /\ pc = "called"
    /\ Call(normalized_ast)
    /\ pc' = "again"

NextNormalize ==
    \/ NormalizeEarlier
    \/ NormalizeTree
    \/ NormalizeRenamed
    \/ NormalizeAgain

SpecNormalize == InitNormalize /\ [][NextNormalize]_vars

\* ------------------------------------------------- runs of the comparator

InitCompare ==
    /\ pc = "compare"
    /\ latex1 = None /\ latex2 = None
    /\ ast1 \in CompareTrees /\ ast2 \in CompareTrees
    /\ matches = 0 /\ total = 0
    /\ MainUnset
    /\ NormalizeUnset

\* One call compare_asts_with_similarity(ast1, ast2).
Compare ==
    /\ pc = "compare"
    /\ LET r == compare_asts_with_similarity(ast1, ast2)
       IN matches' = r.matches /\ total' = r.total
    /\ pc' = "compared"
    /\ UNCHANGED <<mainVars, normalizeVars, ast1, ast2>>

NextCompare == Compare

SpecCompare == InitCompare /\ [][NextCompare]_vars

\* ------------------------------------------------------------------- main

\* The state at line 99: both texts have been read, nothing computed yet.
Init ==
    /\ pc = "parse1"
    /\ latex1 \in Formulas /\ latex2 \in Formulas
    /\ ast1 = None /\ ast2 = None
    /\ matches = 0 /\ total = 0
    /\ MainUnset
    /\ NormalizeUnset

\* An exception leaves the try block: control goes to line 142.
Raise(exc) ==
    /\ exception' = exc
    /\ pc' = "except"

\* Line 101: ast1 = parse_formula(latex1)
Parse1 ==
    /\ pc = "parse1"
    /\ LET r == parse_formula(latex1)
       IN IF r.raised
          THEN Raise(r.exc) /\ UNCHANGED ast1
          ELSE ast1' = r.value /\ pc' = "parse2" /\ UNCHANGED exception
    /\ UNCHANGED <<latex1, latex2, ast2, simplified1, simplified2, normalized1,
                   mapping1, normalized2, mapping2, are_equal, matches, total,
                   output, normalizeVars>>

\* Line 102: ast2 = parse_formula(latex2)
Parse2 ==
    /\ pc = "parse2"
    /\ LET r == parse_formula(latex2)
       IN IF r.raised
          THEN Raise(r.exc) /\ UNCHANGED ast2
          ELSE ast2' = r.value /\ pc' = "simplify" /\ UNCHANGED exception
    /\ UNCHANGED <<latex1, latex2, ast1, simplified1, simplified2, normalized1,
                   mapping1, normalized2, mapping2, are_equal, matches, total,
                   output, normalizeVars>>

\* Lines 105-106: the external simplifier gives some expression for each
\* tree, or raises.
Simplify ==
    /\ pc = "simplify"
    /\ \/ /\ simplified1' = [func |-> "simplify", of |-> ast1]
          /\ simplified2' = [func |-> "simplify", of |-> ast2]
          /\ pc' = "normalize1"
          /\ UNCHANGED exception
       \/ /\ Raise(ExternalError("simplify"))
          /\ UNCHANGED <<simplified1, simplified2>>
    /\ UNCHANGED <<latex1, latex2, ast1, ast2, normalized1, mapping1, normalized2,
                   mapping2, are_equal, matches, total, output, normalizeVars>>

\* Line 109: normalized1, mapping1 = normalize_variables(ast1)
Normalize1 ==
    /\ pc = "normalize1"
    /\ LET r == normalize_variables(ast1)
       IN normalized1' = r.normalized_ast /\ mapping1' = r.mapping
    /\ pc' = "normalize2"
    /\ UNCHANGED <<latex1, latex2, ast1, ast2, simplified1, simplified2, normalized2,
                   mapping2, are_equal, matches, total, exception, output,
                   normalizeVars>>

\* Line 110: normalized2, mapping2 = normalize_variables(ast2)
Normalize2 ==
    /\ pc = "normalize2"
    /\ LET r == normalize_variables(ast2)
       IN normalized2' = r.normalized_ast /\ mapping2' = r.mapping
    /\ pc' = "equal"
    /\ UNCHANGED <<latex1, latex2, ast1, ast2, simplified1, simplified2, normalized1,
                   mapping1, are_equal, matches, total, exception, output,
                   normalizeVars>>

\* Line 113: are_equal = simplify(normalized1 - normalized2) == 0.  The
\* difference of two identical trees is zero; otherwise the verdict is the
\* simplifier's, which may also raise.
CheckEqual ==
    /\ pc = "equal"
    /\ \/ /\ \E verdict \in BOOLEAN :
               /\ (normalized1 = normalized2) => verdict
               /\ are_equal' = verdict
          /\ pc' = "compare"
          /\ UNCHANGED exception
       \/ /\ normalized1 # normalized2
          /\ Raise(ExternalError("simplify"))
          /\ UNCHANGED are_equal
    /\ UNCHANGED <<latex1, latex2, ast1, ast2, simplified1, simplified2, normalized1,
                   mapping1, normalized2, mapping2, matches, total, output,
                   normalizeVars>>

\* Lines 114-116: the comparison of the two normalized trees; its raw pair
\* is printed at once.
CompareNormalized ==
    /\ pc = "compare"
    /\ LET r == compare_asts_with_similarity(normalized1, normalized2)
       IN /\ matches' = r.matches
          /\ total' = r.total
          /\ output' = Append(output, [line |-> "pair", matches |-> r.matches,
                                       total |-> r.total])
    /\ pc' = "report"
    /\ UNCHANGED <<latex1, latex2, ast1, ast2, simplified1, simplified2, normalized1,
                   mapping1, normalized2, mapping2, are_equal, exception,
                   normalizeVars>>

\* Lines 119-125: the report.
Report ==
    /\ pc = "report"
    /\ output' = Append(output,
                   [line |-> "report",
                    are_equal |-> are_equal,
                    similarity_percentage |-> similarity_percentage(Score(matches, total)),
                    simplified1 |-> simplified1, simplified2 |-> simplified2,
                    normalized1 |-> normalized1, normalized2 |-> normalized2])
    /\ pc' = "visualize"
    /\ UNCHANGED <<latex1, latex2, ast1, ast2, simplified1, simplified2, normalized1,
                   mapping1, normalized2, mapping2, are_equal, matches, total,
                   exception, normalizeVars>>

\* Lines 128-141: the optional rendering; the renderer is external and may
\* raise once the user has asked for it.
Visualize ==
    /\ pc = "visualize"
    /\ \E wanted \in BOOLEAN :
         \/ /\ output' = Append(output, [line |-> "visualize", wanted |-> wanted])
            /\ pc' = "done"
            /\ UNCHANGED exception
         \/ /\ wanted
            /\ Raise(ExternalError("render"))
            /\ output' = Append(output, [line |-> "visualize", wanted |-> wanted])
    /\ UNCHANGED <<latex1, latex2, ast1, ast2, simplified1, simplified2, normalized1,
                   mapping1, normalized2, mapping2, are_equal, matches, total,
                   normalizeVars>>

\* Lines 142-143: every exception of the try block is printed, and main ends.
Except ==
    /\ pc = "except"
    /\ output' = Append(output, [line |-> "error", exc |-> exception])
    /\ pc' = "done"
    /\ UNCHANGED <<latex1, latex2, ast1, ast2, simplified1, simplified2, normalized1,
                   mapping1, normalized2, mapping2, are_equal, matches, total,
                   exception, normalizeVars>>

Next ==
    \/ Parse1
    \/ Parse2
    \/ Simplify
    \/ Normalize1
    \/ Normalize2
    \/ CheckEqual
    \/ CompareNormalized
    \/ Report
    \/ Visualize
    \/ Except

Spec == Init /\ [][Next]_vars

\* ------------------------------------------------- claims on the normalizer

\* A call of the normalizer has returned.
Returned == pc \in {"earlier", "called", "renamed", "again"}

RECURSIVE SymbolSeq(_), SymbolSeqOfAll(_)
\* The symbol names of a tree in left-to-right depth-first order.
SymbolSeq(expr) ==
    IF is_Symbol(expr) THEN <<expr.name>> ELSE SymbolSeqOfAll(expr.args)

SymbolSeqOfAll(children) ==
    IF children = <<>> THEN <<>>
    ELSE SymbolSeq(Head(children)) \o SymbolSeqOfAll(Tail(children))

RECURSIVE FirstSeen(_)
\* The distinct elements of a sequence in the order of their first occurrence.
FirstSeen(seq) ==
    IF seq = <<>> THEN <<>>
    ELSE LET before == FirstSeen(SubSeq(seq, 1, Len(seq) - 1))
             last == seq[Len(seq)]
         IN IF \E i \in 1..Len(before) : before[i] = last
            THEN before ELSE Append(before, last)

RECURSIVE SameShape(_, _)
\* b is a with at most its symbol leaves replaced by symbol leaves.
SameShape(a, b) ==
    /\ b.func = a.func
    /\ Len(b.args) = Len(a.args)
    /\ (~is_Symbol(a) /\ a.args = <<>>) => b = a
    /\ \A i \in 1..Len(a.args) : SameShape(a.args[i], b.args[i])

\* C2: renaming invariance.  When the argument of a call is the argument of
\* the call before it with its symbols consistently renamed by an injective
\* renaming, the two calls return the same canonical tree.
C2_RenamingInvariance ==
    (/\ Returned
     /\ prev_ast # None
     /\ \E r \in Renamings : ast = Rename(prev_ast, r))
    => normalized_ast = prev_normalized_ast

C2_Witness ==
    /\ pc = "renamed"
    /\ ast # prev_ast
    /\ Cardinality(DOMAIN mapping) = 2
    /\ Len(SymbolSeq(ast)) = 3

C10_FirstEncounterNumbering ==
    Returned =>
        LET occurrences == SymbolSeq(ast)
            distinct == FirstSeen(occurrences)
            n == Len(distinct)
        IN /\ DOMAIN mapping = {distinct[k] : k \in 1..n}
           /\ \A k \in 1..n : mapping[distinct[k]] = Placeholder(k)
           /\ \A m, l \in DOMAIN mapping : mapping[m] = mapping[l] => m = l
           /\ next_variable_index = n + 1
           /\ SymbolSeq(normalized_ast) =
                 [i \in 1..Len(occurrences) |-> mapping[occurrences[i]]]
           /\ (prev_ast = ast => prev_normalized_ast = normalized_ast)

C10_Witness ==
    /\ pc = "called"
    /\ prev_ast # None
    /\ prev_ast # ast
    /\ Len(SymbolSeq(ast)) = 3
    /\ Cardinality(DOMAIN mapping) = 2
    /\ SymbolSeq(ast)[1] = "x_2"
    /\ SymbolSeq(ast)[3] = "x_2"

\* ------------------------------------------------- claims on the comparator

IsOperator(a) == a.func \in OperatorTags

\* Symbol, Constant or Operator.
Kind(a) ==
    IF is_Symbol(a) THEN "Symbol"
    ELSE IF a.args = <<>> THEN "Constant" ELSE "Operator"

RECURSIVE AlignedSum(_, _, _)
\* The sum of the scores of the first n child pairs at the same position.
AlignedSum(a1, a2, n) ==
    IF n = 0 THEN Score(0, 0)
    ELSE LET s == compare_asts_with_similarity(a1.args[n], a2.args[n])
             r == AlignedSum(a1, a2, n - 1)
         IN Score(s.matches + r.matches, s.total + r.total)

\* C1: symmetry.  The pair returned for (ast1, ast2) is the pair the
\* comparator returns for (ast2, ast1).
C1_Symmetry ==
    pc = "compared" =>
        Score(matches, total) = compare_asts_with_similarity(ast2, ast1)

C1_Witness ==
    /\ pc = "compared"
    /\ Len(ast1.args) = 1
    /\ Len(ast2.args) = 2
    /\ ast1.func = ast2.func

\* C4: bounded score.  0 <= matches <= total (matches in halves), and the
\* percentage derived from the pair lies between 0 and 100.
C4_BoundedScore ==
    pc = "compared" =>
        LET p == similarity_percentage(Score(matches, total))
        IN /\ 0 <= matches
           /\ matches <= 2 * total
           /\ 0 <= p.num
           /\ p.num <= 100 * p.den

C4_Witness ==
    /\ pc = "compared"
    /\ 0 < matches
    /\ matches < 2 * total

\* C5: full-match identity.  A tree compared with itself gives (1, 1), the
\* whole tree counted as one matched unit, hence 100%.
C5_FullMatchIdentity ==
    (pc = "compared" /\ ast1 = ast2) =>
        LET p == similarity_percentage(Score(matches, total))
        IN /\ matches = 2
           /\ total = 1
           /\ p.num = 100 * p.den

C5_Witness ==
    /\ pc = "compared"
    /\ ast1 = ast2
    /\ Len(ast1.args) = 2

\* C8: leaf partial credit.  For unequal nodes of which at least one is a
\* leaf, the result is (0, 1) when the kinds differ and (0.5, 1) when both
\* are leaves of one kind with different values; the normalized forms of
\* 2 * x and 3 * x give matches = 2.5 and total = 3.
C8_LeafPartialCredit ==
    pc = "compared" =>
        /\ (ast1 # ast2 /\ (ast1.args = <<>> \/ ast2.args = <<>>)) =>
              /\ total = 1
              /\ matches = IF Kind(ast1) # Kind(ast2) THEN 0 ELSE 1
        /\ (/\ ast1 = Operator("Mul", <<Number(2), Symbol("x_1")>>)
            /\ ast2 = Operator("Mul", <<Number(3), Symbol("x_1")>>))
           => (matches = 5 /\ total = 3)

\* C9: operator rule with arity truncation.  For unequal operator nodes,
\* total is 1 plus the totals of the child pairs at positions 1..min(m, n),
\* and matches is 1 for equal tags (else 0) plus the matches of those pairs;
\* the normalized forms of x + y and x * y give matches = 2 and total = 3.
C9_OperatorRule ==
    pc = "compared" =>
        /\ (ast1 # ast2 /\ IsOperator(ast1) /\ IsOperator(ast2)) =>
              LET aligned == AlignedSum(ast1, ast2, Min(Len(ast1.args), Len(ast2.args)))
              IN /\ total = 1 + aligned.total
                 /\ matches = (IF ast1.func = ast2.func THEN 2 ELSE 0) + aligned.matches
        /\ (/\ ast1 = Operator("Add", <<Symbol("x_1"), Symbol("x_2")>>)
            /\ ast2 = Operator("Mul", <<Symbol("x_1"), Symbol("x_2")>>))
           => (matches = 4 /\ total = 3)

C9_Witness ==
    /\ pc = "compared"
    /\ IsOperator(ast1) /\ IsOperator(ast2)
    /\ Len(ast1.args) = 2
    /\ Len(ast2.args) = 1
    /\ ast1.args[1] # ast2.args[1]
    /\ total = 2

\* -------------------------------------------------------- claims on main

ParseFails == ~latex1.wellformed \/ ~latex2.wellformed

\* The one error a failed parse is reported as: a ValueError carrying the
\* cause of the first text that does not parse.
ParseError ==
    [type |-> "ValueError", text |-> "LaTeX parse error",
     cause |-> IF ~latex1.wellformed THEN latex1.cause ELSE latex2.cause]

\* C6: a parse failure aborts the comparison.  In a run where one of the two
\* texts does not parse, nothing is simplified, normalized or compared, the
\* exception caught is one parse error carrying the parser's cause, and all
\* that is printed is that error.
C6_ParseFailureAborts ==
    ParseFails =>
        /\ pc \in {"parse1", "parse2", "except", "done"}
        /\ simplified1 = None /\ simplified2 = None
        /\ normalized1 = None /\ normalized2 = None
        /\ mapping1 = None /\ mapping2 = None
        /\ total = 0
        /\ pc = "except" => (exception = ParseError /\ output = <<>>)
        /\ pc \in {"parse1", "parse2"} => output = <<>>
        /\ pc = "done" => output = <<[line |-> "error", exc |-> ParseError]>>

C6_Witness ==
    /\ pc = "done"
    /\ latex1.wellformed
    /\ ~latex2.wellformed
    /\ ast1 # None

====
